---- MODULE Spec2Model ----
(***************************************************************************)
(* Model of Project_14.py: a PySpark script that prepares a tabular        *)
(* dataset (func_modulo_prep_dados), cross-validates five regressors       *)
(* (func_modulo_ml), accumulates a summary table and scores one new        *)
(* record.                                                                 *)
(*                                                                         *)
(* Library semantics assumed (pyspark 2.x/3.0-3.2, the versions in which   *)
(* str(dataType) is the bare class name the script compares against):      *)
(*  - DataFrame.withColumn replaces a column of the same name, otherwise   *)
(*    appends one; DataFrame.union is positional and raises when the two   *)
(*    tables differ in their number of columns;                            *)
(*  - iterating a DataFrame yields Column objects, and StructType indexed  *)
(*    by anything but a str, int or slice raises TypeError;                *)
(*  - approxQuantile(col, p, err) returns a sample of the column whose     *)
(*    rank is within err*N of p*N;                                         *)
(*  - skewness of a constant column is NaN or null depending on the build. *)
(* Cell values are symbolic terms <<tag, n>> so that log(x+1), exp(x) and  *)
(* log(x)+1 are told apart.                                                *)
(***************************************************************************)
EXTENDS Integers, Sequences, FiniteSets, TLC

VARIABLES
    pc,                     \* position of the run
    df,                     \* argument df of func_modulo_prep_dados (dados)
    tratar_outliers,        \* argument
    padronizar_dados,       \* argument
    novo_df,                \* local of func_modulo_prep_dados
    variaveis_numericas,    \* local
    variaveis_categoricas,  \* local
    df_indexed,             \* local
    d,                      \* local: col -> <<p1, p99>>
    indexed,                \* local, assigned in the outlier loop
    dados_vetorizados,      \* local
    scalerModel,            \* global: fitted MinMaxScalerModel
    dados_finais,           \* value returned by func_modulo_prep_dados
    dados_treino,           \* global: rows of the 70% split
    dados_teste,            \* global: rows of the 30% split
    loop_i,                 \* position of the training loop in regressores
    regressor,              \* global: the loop variable of line 485
    algoritmo_regressao,    \* argument of func_modulo_ml
    bestModel,              \* globals LR_BestModel .. ISO_BestModel, by name
    modelo,                 \* local of func_modulo_ml: the CrossValidatorModel
    resultado_teste_rmse,   \* local of func_modulo_ml: str of the winner's test RMSE
    resultado_teste_r2,     \* local of func_modulo_ml: str of the winner's test R2
    resultado_modelo,       \* df_resultado as returned by func_modulo_ml
    df_resultados_treinamento, \* global: the summary table
    novos_dados,            \* global: the new record, lines 519-531
    novos_dados_final,      \* global: the scaled new record, lines 534-540
    previsoes_novos_dados,  \* global: line 543
    writes,                 \* global name -> number of assignments so far
    reads,                  \* global name -> number of reads so far
    err                     \* exception that ended the run, "" if none

prepVars == <<df, tratar_outliers, padronizar_dados, novo_df, variaveis_numericas,
              variaveis_categoricas, df_indexed, d, indexed, dados_vetorizados,
              scalerModel, dados_finais>>
mlVars == <<dados_treino, dados_teste, loop_i, regressor, algoritmo_regressao, bestModel,
            modelo, resultado_teste_rmse, resultado_teste_r2, resultado_modelo,
            df_resultados_treinamento, reads>>
scoreVars == <<novos_dados, novos_dados_final, previsoes_novos_dados>>
vars == <<pc, prepVars, mlVars, scoreVars, writes, err>>

----------------------------------------------------------------------------
(* Bounds of the model *)

\* rows of the dataset
NRows == 4
\* numeric cells are drawn from 0..MaxVal
MaxVal == 1

(* Program constants *)

\* approxQuantile(col, [0.01, 0.99], 0.25), in hundredths
QuantLowPct == 1
QuantHighPct == 99
RelErrPct == 25

----------------------------------------------------------------------------
(* Symbolic cell values *)

Raw(x) == <<"raw", x>>
\* log(x + 1)
Log1p(x) == <<"log(x+1)", x>>
\* exp(x)
ExpOf(x) == <<"exp(x)", x>>
\* log(x) + 1
LogPlus1(x) == <<"log(x)+1", x>>
StrCell(x) == <<"str", x>>
\* cast(FloatType())
FloatCast(v) == <<"float", v[2]>>

\* all cells of one numeric column carry the same monotone term: order by argument
Key(v) == v[2]

----------------------------------------------------------------------------
(* DataFrames: [cols: sequence of names, types: name -> type, data: name -> column] *)

Range(s) == {s[i] : i \in DOMAIN s}

EmptyDF == [cols |-> <<>>, types |-> <<>>, data |-> <<>>]

HasCol(t, c) == c \in Range(t.cols)

\* DataFrame.withColumn
WithColumn(t, c, ty, vals) ==
    [cols  |-> IF HasCol(t, c) THEN t.cols ELSE Append(t.cols, c),
     types |-> [n \in Range(t.cols) \cup {c} |-> IF n = c THEN ty ELSE t.types[n]],
     data  |-> [n \in Range(t.cols) \cup {c} |-> IF n = c THEN vals ELSE t.data[n]]]

\* DataFrame.withColumnRenamed
WithColumnRenamed(t, old, new) ==
    IF ~HasCol(t, old) THEN t
    ELSE LET ren(n) == IF n = old THEN new ELSE n
             back(n) == IF n = new THEN old ELSE n
             names == {ren(n) : n \in Range(t.cols)}
         IN [cols  |-> [i \in DOMAIN t.cols |-> ren(t.cols[i])],
             types |-> [n \in names |-> t.types[back(n)]],
             data  |-> [n \in names |-> t.data[back(n)]]]

\* DataFrame.select
Select(t, names) ==
    [cols  |-> names,
     types |-> [n \in Range(names) |-> t.types[n]],
     data  |-> [n \in Range(names) |-> t.data[n]]]

NumRows(t) == IF t.cols = <<>> THEN 0 ELSE Len(t.data[t.cols[1]])

----------------------------------------------------------------------------
(* Library primitives used by func_modulo_prep_dados *)

RECURSIVE SumSeq(_)
SumSeq(s) == IF s = <<>> THEN 0 ELSE Head(s) + SumSeq(Tail(s))

\* pyspark.sql.functions.skewness, classified against the thresholds 1 and -1 of
\* lines 137 and 142. skew = sqrt(n) * m3 / m2^(3/2) over the deviations from the
\* mean; with D_i = n*x_i - sum, skew^2 = n * (sum D^3)^2 / (sum D^2)^3.
SkewClass(vals) ==
    LET n  == Len(vals)
        xs == [i \in 1..n |-> Key(vals[i])]
        S  == SumSeq(xs)
        M2 == SumSeq([i \in 1..n |-> (n * xs[i] - S) * (n * xs[i] - S)])
        M3 == SumSeq([i \in 1..n |-> (n * xs[i] - S) * (n * xs[i] - S) * (n * xs[i] - S)])
    IN IF M2 = 0 THEN "nan"
       ELSE IF M3 > 0 /\ n * M3 * M3 > M2 * M2 * M2 THEN "gt1"
       ELSE IF M3 < 0 /\ n * M3 * M3 > M2 * M2 * M2 THEN "lt-1"
       ELSE "mid"

\* DataFrame.approxQuantile(col, [p], relativeError): the values the call may
\* return, i.e. the samples with a rank r such that
\* floor((p - err) * N) <= r <= ceil((p + err) * N).
ApproxQuantile(vals, pct) ==
    LET N  == Len(vals)
        lo == ((pct - RelErrPct) * N) \div 100
        hi == 0 - ((0 - (pct + RelErrPct) * N) \div 100)
        below(x) == Cardinality({i \in 1..N : Key(vals[i]) < x})
        upto(x)  == Cardinality({i \in 1..N : Key(vals[i]) <= x})
    IN {Key(vals[i]) : i \in {j \in 1..N :
            \E r \in lo..hi : below(Key(vals[j])) + 1 <= r /\ r <= upto(Key(vals[j]))}}

\* lines 124-125: the dictionaries d the loop can build, d[col] = [p1, p99]
QuantileTables(t, cols) ==
    LET cand(c) == ApproxQuantile(t.data[c], QuantLowPct) \X ApproxQuantile(t.data[c], QuantHighPct)
    IN {q \in [Range(cols) -> UNION {cand(c) : c \in Range(cols)}] :
            \A c \in Range(cols) : q[c] \in cand(c)}

\* when(x < p1, p1).when(x > p99, p99).otherwise(x)
Clip(x, p1, p99) == IF x < p1 THEN p1 ELSE IF x > p99 THEN p99 ELSE x

\* the column expression of line 138: log(clip + 1)
LogTreated(vals, q) == [i \in DOMAIN vals |-> Log1p(Clip(Key(vals[i]), q[1], q[2]))]
\* the column expression of line 143: exp(clip)
ExpTreated(vals, q) == [i \in DOMAIN vals |-> ExpOf(Clip(Key(vals[i]), q[1], q[2]))]

\* str(schema[c].dataType) == 'StringType'
IsStringType(t, c) == t.types[c] = "StringType"

\* VectorAssembler.transform: one vector per row out of the input columns
Assemble(t, inputCols) ==
    WithColumn(t, "features", "vector",
               [i \in 1..NumRows(t) |-> [k \in DOMAIN inputCols |-> t.data[inputCols[k]][i]]])

\* VectorAssembler raises on a missing or a string input column
AssembleFails(t, inputCols) ==
    \E k \in DOMAIN inputCols : ~HasCol(t, inputCols[k]) \/ IsStringType(t, inputCols[k])

\* MinMaxScaler.fit: per-feature minimum and maximum of the vectors
MinMaxFit(vectors) ==
    LET n == Len(vectors)
        w == IF n = 0 THEN 0 ELSE Len(vectors[1])
        col(k) == {vectors[i][k] : i \in 1..n}
    IN [min |-> [k \in 1..w |-> CHOOSE v \in col(k) : \A u \in col(k) : Key(v) <= Key(u)],
        max |-> [k \in 1..w |-> CHOOSE v \in col(k) : \A u \in col(k) : Key(u) <= Key(v)]]

\* MinMaxScalerModel.transform of one vector: (x - min) / (max - min) per feature
Rescale(model, vec) == [k \in DOMAIN vec |-> <<"scaled", vec[k], model.min[k], model.max[k]>>]

\* MinMaxScalerModel.transform: appends the column scaledFeatures
ScalerTransform(model, t) ==
    WithColumn(t, "scaledFeatures", "vector",
               [i \in 1..NumRows(t) |-> Rescale(model, t.data["features"][i])])

NoScaler == [min |-> <<>>, max |-> <<>>]

----------------------------------------------------------------------------
(* func_modulo_prep_dados, lines 63-186 *)

\* dados.columns[:-1], line 191
VariaveisEntrada(t) == SubSeq(t.cols, 1, Len(t.cols) - 1)
\* dados.columns[-1], line 194
VariavelSaida(t) == t.cols[Len(t.cols)]

\* Column.cast(FloatType()) of a column of type ty: a float column is left as it
\* is, any other has every value converted
CastColumn(ty, vals) ==
    IF ty = "FloatType" THEN vals ELSE [i \in DOMAIN vals |-> FloatCast(vals[i])]

\* lines 66-70: rename the output column, cast it unless it is IntegerType
RenameAndCast(t) ==
    LET r == WithColumnRenamed(t, VariavelSaida(t), "label")
    IN IF r.types["label"] # "IntegerType"
       THEN WithColumn(r, "label", "FloatType", CastColumn(r.types["label"], r.data["label"]))
       ELSE r

\* lines 77-91: the two lists, in input order
RECURSIVE Numericas(_, _)
Numericas(t, cols) ==
    IF cols = <<>> THEN <<>>
    ELSE IF IsStringType(t, Head(cols)) THEN Numericas(t, Tail(cols))
    ELSE <<Head(cols)>> \o Numericas(t, Tail(cols))

RECURSIVE Categoricas(_, _)
Categoricas(t, cols) ==
    IF cols = <<>> THEN <<>>
    ELSE IF IsStringType(t, Head(cols)) THEN <<Head(cols) \o "_num">> \o Categoricas(t, Tail(cols))
    ELSE Categoricas(t, Tail(cols))

\* one pass of the loop body, lines 131-143: the table withColumn builds out of
\* df_indexed for a column, by the class of its skewness
TreatColumn(t, col, q) ==
    LET k == SkewClass(t.data[col])
    IN IF k = "gt1" THEN WithColumn(t, col, "DoubleType", LogTreated(t.data[col], q))
       ELSE IF k = "lt-1" THEN WithColumn(t, col, "DoubleType", ExpTreated(t.data[col], q))
       ELSE t

\* lines 128-143: what the loop leaves in the local `indexed`: every pass that
\* treats a column assigns indexed = df_indexed.withColumn(...); prev is the value
\* before the loop
RECURSIVE IndexedAfterLoop(_, _, _, _)
IndexedAfterLoop(t, cols, q, prev) ==
    IF cols = <<>> THEN prev
    ELSE IndexedAfterLoop(t, Tail(cols), q,
            IF SkewClass(t.data[Head(cols)]) \in {"gt1", "lt-1"}
            THEN TreatColumn(t, Head(cols), q[Head(cols)]) ELSE prev)

\* every column treated in turn, each pass working on the result of the one before
RECURSIVE AllTreated(_, _, _)
AllTreated(t, cols, q) ==
    IF cols = <<>> THEN t
    ELSE AllTreated(WithColumn(t, Head(cols), "DoubleType", LogTreated(t.data[Head(cols)], q[Head(cols)])),
                    Tail(cols), q)

\* lines 128-146: what the loop leaves in df_indexed: no statement of the loop
\* assigns it
DfIndexedAfterLoop(t, cols, q) == t

PrepRename ==
    /\ pc = "prep_start"
    /\ novo_df' = RenameAndCast(df)
    /\ pc' = "prep_classify"
    /\ UNCHANGED <<mlVars, scoreVars>>
    /\ UNCHANGED <<df, tratar_outliers, padronizar_dados, variaveis_numericas,
                   variaveis_categoricas, df_indexed, d, indexed, dados_vetorizados,
                   scalerModel, dados_finais, writes, err>>

\* lines 73-94
PrepClassify ==
    /\ pc = "prep_classify"
    /\ variaveis_numericas' = Numericas(novo_df, VariaveisEntrada(df))
    /\ variaveis_categoricas' = Categoricas(novo_df, VariaveisEntrada(df))
    /\ df_indexed' = IF variaveis_numericas' # <<>> THEN novo_df ELSE df_indexed
    /\ pc' = "prep_index"
    /\ UNCHANGED <<mlVars, scoreVars>>
    /\ UNCHANGED <<df, tratar_outliers, padronizar_dados, novo_df, d, indexed,
                   dados_vetorizados, scalerModel, dados_finais, writes, err>>

\* lines 98-114. `for coluna in novo_df` yields Column objects and
\* novo_df.schema[coluna] raises TypeError on the first of them.
PrepIndex ==
    /\ pc = "prep_index"
    /\ IF Len(variaveis_categoricas) # 0
       THEN /\ pc' = "aborted"
            /\ err' = "TypeError"
            /\ UNCHANGED df_indexed
       ELSE /\ pc' = "prep_outliers"
            /\ df_indexed' = novo_df
            /\ UNCHANGED err
    /\ UNCHANGED <<mlVars, scoreVars>>
    /\ UNCHANGED <<df, tratar_outliers, padronizar_dados, novo_df, variaveis_numericas,
                   variaveis_categoricas, d, indexed, dados_vetorizados,
                   scalerModel, dados_finais, writes>>

\* lines 117-146
PrepOutliers ==
    /\ pc = "prep_outliers"
    /\ IF tratar_outliers
       THEN \E q \in QuantileTables(df_indexed, variaveis_numericas), nullSkew \in BOOLEAN :
              /\ d' = q
              /\ IF nullSkew /\ \E c \in Range(variaveis_numericas) :
                                    SkewClass(df_indexed.data[c]) = "nan"
                 THEN \* skew is None: `skew > 1` raises
                      /\ pc' = "aborted"
                      /\ err' = "TypeError"
                      /\ UNCHANGED <<indexed, df_indexed>>
                 ELSE /\ indexed' = IndexedAfterLoop(df_indexed, variaveis_numericas, q, indexed)
                      /\ df_indexed' = DfIndexedAfterLoop(df_indexed, variaveis_numericas, q)
                      /\ pc' = "prep_vectorize"
                      /\ UNCHANGED err
       ELSE /\ pc' = "prep_vectorize"
            /\ UNCHANGED <<d, indexed, df_indexed, err>>
    /\ UNCHANGED <<mlVars, scoreVars>>
    /\ UNCHANGED <<df, tratar_outliers, padronizar_dados, novo_df, variaveis_numericas,
                   variaveis_categoricas, dados_vetorizados, scalerModel, dados_finais,
                   writes>>

\* line 151
ListaAtributos == variaveis_numericas \o variaveis_categoricas

\* lines 151-157
PrepVectorize ==
    /\ pc = "prep_vectorize"
    /\ IF AssembleFails(df_indexed, ListaAtributos)
       THEN /\ pc' = "aborted"
            /\ err' = "IllegalArgumentException"
            /\ UNCHANGED dados_vetorizados
       ELSE /\ dados_vetorizados' = Select(Assemble(df_indexed, ListaAtributos), <<"features", "label">>)
            /\ pc' = "prep_scale"
            /\ UNCHANGED err
    /\ UNCHANGED <<mlVars, scoreVars>>
    /\ UNCHANGED <<df, tratar_outliers, padronizar_dados, novo_df, variaveis_numericas,
                   variaveis_categoricas, df_indexed, d, indexed, scalerModel,
                   dados_finais, writes>>

\* the rename of line 177 left out
PadronizadosNotRenamed(model, t) ==
    Select(ScalerTransform(model, t), <<"label", "scaledFeatures">>)

\* lines 171-177: transform, select, rename
Padronizados(model, t) ==
    WithColumnRenamed(Select(ScalerTransform(model, t), <<"label", "scaledFeatures">>),
                      "scaledFeatures", "features")

\* lines 160-186
PrepScale ==
    /\ pc = "prep_scale"
    /\ IF padronizar_dados
       THEN /\ scalerModel' = MinMaxFit(dados_vetorizados.data["features"])
            /\ writes' = [writes EXCEPT !["scalerModel"] = @ + 1]
            /\ dados_finais' = Padronizados(scalerModel', dados_vetorizados)
       ELSE /\ dados_finais' = dados_vetorizados
            /\ UNCHANGED <<scalerModel, writes>>
    /\ pc' = "prep_returned"
    /\ UNCHANGED <<mlVars, scoreVars>>
    /\ UNCHANGED <<df, tratar_outliers, padronizar_dados, novo_df, variaveis_numericas,
                   variaveis_categoricas, df_indexed, d, indexed, dados_vetorizados, err>>

PrepStep == PrepRename \/ PrepClassify \/ PrepIndex \/ PrepOutliers \/ PrepVectorize \/ PrepScale

----------------------------------------------------------------------------
(* Inputs *)

\* input columns of the modelled dataset: the last two names of line 525
InputNames == <<"fineaggregate", "age">>
\* the output column, dados.columns[-1]
LabelName == "csMPa"

\* column contents; nothing the script computes depends on the order of the rows
\* within a column, so columns are drawn in ascending order
SortedColumns == {s \in [1..NRows -> 0..MaxVal] : \A i \in 1..(NRows - 1) : s[i] <= s[i + 1]}

NumericColumn(s) == [i \in 1..NRows |-> Raw(s[i])]
StringColumn == [i \in 1..NRows |-> StrCell(i % 2)]
LabelColumn(ty) == [i \in 1..NRows |-> IF ty = "StringType" THEN StrCell(i) ELSE Raw(i)]

LabelTypes == {"IntegerType", "LongType", "FloatType", "DoubleType", "StringType"}

\* a table as spark.read.csv(..., inferSchema = True) delivers it
Dataset(content, labelType) ==
    LET names == Range(InputNames) \cup {LabelName}
    IN [cols  |-> InputNames \o <<LabelName>>,
        types |-> [n \in names |-> IF n = LabelName THEN labelType
                                   ELSE IF content[n] = StringColumn THEN "StringType"
                                   ELSE "DoubleType"],
        data  |-> [n \in names |-> IF n = LabelName THEN LabelColumn(labelType) ELSE content[n]]]

NumericColumns == {NumericColumn(s) : s \in SortedColumns}

\* every table func_modulo_prep_dados is checked on
AllDatasets ==
    {Dataset(c, ty) : c \in [Range(InputNames) -> NumericColumns \cup {StringColumn}],
                      ty \in LabelTypes}

\* the tables the script is run on: numeric inputs that are not constant, a
\* double output column
ScriptDatasets ==
    {Dataset(c, "DoubleType") :
        c \in [Range(InputNames) -> {col \in NumericColumns : SkewClass(col) # "nan"}]}

GlobalNames == {"scalerModel", "LR_BestModel", "DT_BestModel", "RF_BestModel",
                "GBT_BestModel", "ISO_BestModel"}
BestModelNames == GlobalNames \ {"scalerModel"}

NoModel == [family |-> "", params |-> "", cv |-> FALSE]

\* the state before func_modulo_prep_dados is entered with (ds, to, pd)
Start(ds, to, pd) ==
    /\ pc = "prep_start"
    /\ df = ds
    /\ tratar_outliers = to
    /\ padronizar_dados = pd
    /\ novo_df = EmptyDF
    /\ variaveis_numericas = <<>>
    /\ variaveis_categoricas = <<>>
    /\ df_indexed = EmptyDF
    /\ d = <<>>
    /\ indexed = EmptyDF
    /\ dados_vetorizados = EmptyDF
    /\ scalerModel = NoScaler
    /\ dados_finais = EmptyDF
    /\ dados_treino = {}
    /\ dados_teste = {}
    /\ loop_i = 0
    /\ regressor = ""
    /\ algoritmo_regressao = ""
    /\ bestModel = [n \in BestModelNames |-> NoModel]
    /\ modelo = NoModel
    /\ resultado_teste_rmse = <<>>
    /\ resultado_teste_r2 = <<>>
    /\ resultado_modelo = EmptyDF
    /\ df_resultados_treinamento = EmptyDF
    /\ novos_dados = EmptyDF
    /\ novos_dados_final = EmptyDF
    /\ previsoes_novos_dados = EmptyDF
    /\ writes = [n \in GlobalNames |-> 0]
    /\ reads = [n \in GlobalNames |-> 0]
    /\ err = ""

----------------------------------------------------------------------------
(* func_modulo_ml, lines 241-465 *)

\* line 475
Regressores == <<"LinearRegression", "DecisionTreeRegressor", "RandomForestRegressor",
                 "GBTRegressor", "IsotonicRegression">>

\* lines 273, 329, 333, 337, 341: the hyperparameter grid built for tipo_algo
ParamGrid(tipo_algo) ==
    CASE tipo_algo = "LinearRegression" -> {"regParam=0.1", "regParam=0.01"}
      [] tipo_algo = "DecisionTreeRegressor" -> {"maxBins=10", "maxBins=20", "maxBins=40"}
      [] tipo_algo = "RandomForestRegressor" -> {"numTrees=5", "numTrees=20"}
      [] tipo_algo = "GBTRegressor" -> {"maxBins=10,maxIter=10", "maxBins=10,maxIter=15",
                                        "maxBins=20,maxIter=10", "maxBins=20,maxIter=15"}
      [] tipo_algo = "IsotonicRegression" -> {"isotonic=True", "isotonic=False"}

\* lines 292, 361, 382, 403, 424: the global the branch of tipo_algo assigns
SlotOf(tipo_algo) ==
    CASE tipo_algo = "LinearRegression" -> "LR_BestModel"
      [] tipo_algo = "DecisionTreeRegressor" -> "DT_BestModel"
      [] tipo_algo = "RandomForestRegressor" -> "RF_BestModel"
      [] tipo_algo = "GBTRegressor" -> "GBT_BestModel"
      [] tipo_algo = "IsotonicRegression" -> "ISO_BestModel"

\* CrossValidator(estimator, estimatorParamMaps, ...).fit(...).bestModel: the
\* estimator fitted with one of the grid's parameter maps
CVWinners(estimator, grid) == {[family |-> estimator, params |-> g, cv |-> TRUE] : g \in grid}

\* str(float) of a metric: decimal strings, as sequences of characters
MetricStrings == {<<"1", "0", ".", "3", "8", "2", "1">>, <<"0", ".", "8", "7", "5">>, <<"7", ".", "2">>}

\* Column.substr(startPos, length) with Spark's substring: positions count from 1
\* and a start of 0 is the first character
Substr(str, startPos, length) ==
    LET start == IF startPos > 0 THEN startPos - 1 ELSE 0
        end   == IF start + length > Len(str) THEN Len(str) ELSE start + length
    IN SubSeq(str, start + 1, end)

\* lines 307-317 and 442-459: spark.createDataFrame(zip(tipo_algo, rmse_str, r2_str), columns)
ResultFrame(tipo_algo, rmse_str, r2_str) ==
    [cols  |-> <<"Regressor", "Resultado_RMSE", "Resultado_R2">>,
     types |-> [n \in {"Regressor", "Resultado_RMSE", "Resultado_R2"} |-> "StringType"],
     data  |-> [n \in {"Regressor", "Resultado_RMSE", "Resultado_R2"} |->
                    IF n = "Regressor" THEN <<tipo_algo>>
                    ELSE IF n = "Resultado_RMSE" THEN <<rmse_str>> ELSE <<r2_str>>]]

\* withColumn(name, t[from].substr(0, 5))
WithTruncated(t, name, from) ==
    WithColumn(t, name, "StringType", [i \in DOMAIN t.data[from] |-> Substr(t.data[from][i], 0, 5)])

\* lines 317-323: the table the LinearRegression branch returns
ResultadoLR(tipo_algo, rmse_str, r2_str) ==
    WithTruncated(WithTruncated(ResultFrame(tipo_algo, rmse_str, r2_str),
                                "Result_RMSE", "Resultado_RMSE"),
                  "Result_R2", "Resultado_R2")

\* lines 459-465: the table the other branches return
ResultadoCV(tipo_algo, rmse_str, r2_str) ==
    WithTruncated(WithTruncated(ResultFrame(tipo_algo, rmse_str, r2_str),
                                "Resultado_RMSE", "Resultado_RMSE"),
                  "Resultado_R2", "Resultado_R2")

\* lines 250-293 and 328-425 (the assignments): cross-validate the global regressor
\* over the grid of tipo_algo and store the winner in the global of tipo_algo
MLFit ==
    /\ pc = "ml_fit"
    /\ \E best \in CVWinners(regressor, ParamGrid(algoritmo_regressao)) :
          /\ modelo' = best
          /\ bestModel' = [bestModel EXCEPT ![SlotOf(algoritmo_regressao)] = best]
    /\ writes' = [writes EXCEPT ![SlotOf(algoritmo_regressao)] = @ + 1]
    /\ pc' = "ml_eval"
    /\ UNCHANGED <<prepVars, scoreVars, dados_treino, dados_teste, loop_i, regressor,
                   algoritmo_regressao, resultado_teste_rmse, resultado_teste_r2,
                   resultado_modelo, df_resultados_treinamento, reads, err>>

\* lines 295-323 and 365-465: transform the test split with the stored winner,
\* evaluate RMSE and R2, build and return df_resultado
MLEvaluate ==
    /\ pc = "ml_eval"
    /\ reads' = [reads EXCEPT ![SlotOf(algoritmo_regressao)] = @ + 1]
    /\ \E rmse \in MetricStrings, r2 \in MetricStrings :
          /\ resultado_teste_rmse' = rmse
          /\ resultado_teste_r2' = r2
          /\ resultado_modelo' = IF algoritmo_regressao = "LinearRegression"
                                 THEN ResultadoLR(algoritmo_regressao, rmse, r2)
                                 ELSE ResultadoCV(algoritmo_regressao, rmse, r2)
    /\ pc' = "ml_returned"
    /\ UNCHANGED <<prepVars, scoreVars, dados_treino, dados_teste, loop_i, regressor,
                   algoritmo_regressao, bestModel, modelo, df_resultados_treinamento,
                   writes, err>>

----------------------------------------------------------------------------
(* The script around the two functions, lines 188-228 and 474-497 *)

\* line 228: randomSplit([0.7, 0.3]) puts every row in one of the two parts
Split ==
    /\ pc = "prep_returned"
    /\ \E tr \in SUBSET (1..NRows) :
          /\ dados_treino' = tr
          /\ dados_teste' = (1..NRows) \ tr
    /\ pc' = "seed_summary"
    /\ UNCHANGED <<prepVars, scoreVars, loop_i, regressor, algoritmo_regressao, bestModel,
                   modelo, resultado_teste_rmse, resultado_teste_r2, resultado_modelo,
                   df_resultados_treinamento, reads, writes, err>>

NA == <<"N", "/", "A">>

\* lines 478-482
Placeholder ==
    [cols  |-> <<"Regressor", "Resultado_RMSE", "Resultado_R2">>,
     types |-> [n \in {"Regressor", "Resultado_RMSE", "Resultado_R2"} |-> "StringType"],
     data  |-> [n \in {"Regressor", "Resultado_RMSE", "Resultado_R2"} |->
                    IF n = "Regressor" THEN <<"N/A">> ELSE <<NA>>]]

SeedSummary ==
    /\ pc = "seed_summary"
    /\ df_resultados_treinamento' = Placeholder
    /\ pc' = "loop_head"
    /\ UNCHANGED <<prepVars, scoreVars, dados_treino, dados_teste, loop_i, regressor,
                   algoritmo_regressao, bestModel, modelo, resultado_teste_rmse,
                   resultado_teste_r2, resultado_modelo, reads, writes, err>>

\* lines 485-488: the next regressor, or the end of the loop
LoopNext ==
    /\ pc = "loop_head"
    /\ IF loop_i < Len(Regressores)
       THEN /\ loop_i' = loop_i + 1
            /\ regressor' = Regressores[loop_i + 1]
            /\ algoritmo_regressao' = Regressores[loop_i + 1]
            /\ pc' = "ml_fit"
       ELSE /\ pc' = "loop_done"
            /\ UNCHANGED <<loop_i, regressor, algoritmo_regressao>>
    /\ UNCHANGED <<prepVars, scoreVars, dados_treino, dados_teste, bestModel, modelo,
                   resultado_teste_rmse, resultado_teste_r2, resultado_modelo,
                   df_resultados_treinamento, reads, writes, err>>

\* DataFrame.union: by position, under the column names of the left table
Union(a, b) ==
    [cols  |-> a.cols,
     types |-> a.types,
     data  |-> [n \in Range(a.cols) |->
                    LET k == CHOOSE i \in DOMAIN a.cols : a.cols[i] = n
                    IN a.data[n] \o b.data[b.cols[k]]]]

\* DataFrame.union raises AnalysisException unless both tables have the same
\* number of columns
UnionFails(a, b) == Len(a.cols) # Len(b.cols)

\* line 491
LoopUnion ==
    /\ pc = "ml_returned"
    /\ IF UnionFails(df_resultados_treinamento, resultado_modelo)
       THEN /\ pc' = "aborted"
            /\ err' = "AnalysisException"
            /\ UNCHANGED df_resultados_treinamento
       ELSE /\ df_resultados_treinamento' = Union(df_resultados_treinamento, resultado_modelo)
            /\ pc' = "loop_head"
            /\ UNCHANGED err
    /\ UNCHANGED <<prepVars, scoreVars, dados_treino, dados_teste, loop_i, regressor,
                   algoritmo_regressao, bestModel, modelo, resultado_teste_rmse,
                   resultado_teste_r2, resultado_modelo, reads, writes>>

\* DataFrame.where("Regressor!='N/A'")
WhereNotNA(t) ==
    LET keep == {i \in 1..NumRows(t) : t.data["Regressor"][i] # "N/A"}
        RECURSIVE pick(_, _)
        pick(col, i) == IF i > Len(col) THEN <<>>
                        ELSE (IF i \in keep THEN <<col[i]>> ELSE <<>>) \o pick(col, i + 1)
    IN [cols |-> t.cols, types |-> t.types, data |-> [n \in Range(t.cols) |-> pick(t.data[n], 1)]]

\* lines 494-497. No run of the script gets here: the first pass of the loop
\* ends in LoopUnion's exception, so the action is part of no next-state relation.
SummaryFilter ==
    /\ pc = "loop_done"
    /\ df_resultados_treinamento' = WhereNotNA(df_resultados_treinamento)
    /\ pc' = "score_build"
    /\ UNCHANGED <<prepVars, scoreVars, dados_treino, dados_teste, loop_i, regressor,
                   algoritmo_regressao, bestModel, modelo, resultado_teste_rmse,
                   resultado_teste_r2, resultado_modelo, reads, writes, err>>

----------------------------------------------------------------------------
(* func_modulo_prep_dados on every table and every combination of its flags *)

InitPrep == \E ds \in AllDatasets, to \in BOOLEAN, pd \in BOOLEAN : Start(ds, to, pd)

SpecPrep == InitPrep /\ [][PrepStep]_vars

----------------------------------------------------------------------------
(* The script as it runs, lines 188-497 *)

Init == \E ds \in ScriptDatasets : Start(ds, TRUE, TRUE)

Next == PrepStep \/ Split \/ SeedSummary \/ LoopNext \/ MLFit \/ MLEvaluate \/ LoopUnion

Spec == Init /\ [][Next]_vars

----------------------------------------------------------------------------
(* func_modulo_ml called as line 488 calls it, on each of the five regressors *)

\* lines 151-157 and 168 on a table whose inputs are all numeric: the vectors the
\* scaler is fitted on
Vetorizados(ds) == Select(Assemble(RenameAndCast(ds), VariaveisEntrada(ds)), <<"features", "label">>)

\* the state at a call: the globals as lines 197-482 leave them (the locals of
\* func_modulo_prep_dados are gone)
InitML ==
    \E ds \in ScriptDatasets, tr \in SUBSET (1..NRows) :
       /\ pc = "ml_call"
       /\ df = ds
       /\ tratar_outliers = TRUE
       /\ padronizar_dados = TRUE
       /\ novo_df = EmptyDF
       /\ variaveis_numericas = <<>>
       /\ variaveis_categoricas = <<>>
       /\ df_indexed = EmptyDF
       /\ d = <<>>
       /\ indexed = EmptyDF
       /\ dados_vetorizados = EmptyDF
       /\ scalerModel = MinMaxFit(Vetorizados(ds).data["features"])
       /\ dados_finais = Padronizados(scalerModel, Vetorizados(ds))
       /\ dados_treino = tr
       /\ dados_teste = (1..NRows) \ tr
       /\ loop_i = 0
       /\ regressor = ""
       /\ algoritmo_regressao = ""
       /\ bestModel = [n \in BestModelNames |-> NoModel]
       /\ modelo = NoModel
       /\ resultado_teste_rmse = <<>>
       /\ resultado_teste_r2 = <<>>
       /\ resultado_modelo = EmptyDF
       /\ df_resultados_treinamento = Placeholder
       /\ novos_dados = EmptyDF
       /\ novos_dados_final = EmptyDF
       /\ previsoes_novos_dados = EmptyDF
       /\ writes = [n \in GlobalNames |-> IF n = "scalerModel" THEN 1 ELSE 0]
       /\ reads = [n \in GlobalNames |-> 0]
       /\ err = ""

\* line 488 for any one element of regressores
MLCall ==
    /\ pc = "ml_call"
    /\ \E i \in DOMAIN Regressores :
          /\ loop_i' = i
          /\ regressor' = Regressores[i]
          /\ algoritmo_regressao' = Regressores[i]
    /\ pc' = "ml_fit"
    /\ UNCHANGED <<prepVars, scoreVars, dados_treino, dados_teste, bestModel, modelo,
                   resultado_teste_rmse, resultado_teste_r2, resultado_modelo,
                   df_resultados_treinamento, reads, writes, err>>

NextML == MLCall \/ MLFit \/ MLEvaluate

SpecML == InitML /\ [][NextML]_vars

----------------------------------------------------------------------------
(* Final scoring, lines 511-543 *)

\* line 512, for the modelled columns
NovoRegistro == [fineaggregate |-> 676, age |-> 28]

\* line 519: spark.createDataFrame(values, column_names)
NovosDados ==
    [cols  |-> InputNames,
     types |-> [n \in Range(InputNames) |-> "LongType"],
     data  |-> [n \in Range(InputNames) |-> <<Raw(NovoRegistro[n])>>]]

\* line 522: withColumn("age", log("age") + 1)
AgeTransformed(t) ==
    WithColumn(t, "age", "DoubleType", [i \in DOMAIN t.data["age"] |-> LogPlus1(Key(t.data["age"][i]))])

\* a scaler fitted on the new record itself
RefitOnNewRecord(model, t) == MinMaxFit(t.data["features"])

\* line 534: the scaler model the new record is transformed with
ScalerForNewRecord(model, t) == model

\* the statements between preparation and final scoring taken to have run to the
\* end, of which final scoring reads the winner line 404 stores in GBT_BestModel
SelectionCompletes ==
    /\ pc = "prep_returned"
    /\ \E best \in CVWinners("GBTRegressor", ParamGrid("GBTRegressor")) :
          bestModel' = [bestModel EXCEPT !["GBT_BestModel"] = best]
    /\ writes' = [writes EXCEPT !["GBT_BestModel"] = @ + 1]
    /\ pc' = "score_build"
    /\ UNCHANGED <<prepVars, scoreVars, dados_treino, dados_teste, loop_i, regressor,
                   algoritmo_regressao, modelo, resultado_teste_rmse, resultado_teste_r2,
                   resultado_modelo, df_resultados_treinamento, reads, err>>

\* lines 512-531
ScoreBuild ==
    /\ pc = "score_build"
    /\ novos_dados' = Select(Assemble(AgeTransformed(NovosDados), InputNames), <<"features">>)
    /\ pc' = "score_scale"
    /\ UNCHANGED <<prepVars, mlVars, novos_dados_final, previsoes_novos_dados, writes, err>>

\* lines 534-540
ScoreScale ==
    /\ pc = "score_scale"
    /\ IF writes["scalerModel"] = 0
       THEN /\ pc' = "aborted"
            /\ err' = "NameError"
            /\ UNCHANGED <<novos_dados_final, reads>>
       ELSE /\ novos_dados_final' =
                  WithColumnRenamed(
                      Select(ScalerTransform(ScalerForNewRecord(scalerModel, novos_dados), novos_dados),
                             <<"scaledFeatures">>),
                      "scaledFeatures", "features")
            /\ reads' = [reads EXCEPT !["scalerModel"] = @ + 1]
            /\ pc' = "score_predict"
            /\ UNCHANGED err
    /\ UNCHANGED <<prepVars, dados_treino, dados_teste, loop_i, regressor, algoritmo_regressao,
                   bestModel, modelo, resultado_teste_rmse, resultado_teste_r2,
                   resultado_modelo, df_resultados_treinamento, novos_dados,
                   previsoes_novos_dados, writes>>

\* GBT_BestModel.transform appends the column prediction, one value per row
Predict(model, t) ==
    WithColumn(t, "prediction", "DoubleType",
               [i \in 1..NumRows(t) |-> [by |-> model, of |-> t.data["features"][i]]])

\* line 543
ScorePredict ==
    /\ pc = "score_predict"
    /\ IF writes["GBT_BestModel"] = 0
       THEN /\ pc' = "aborted"
            /\ err' = "NameError"
            /\ UNCHANGED <<previsoes_novos_dados, reads>>
       ELSE /\ previsoes_novos_dados' = Predict(bestModel["GBT_BestModel"], novos_dados_final)
            /\ reads' = [reads EXCEPT !["GBT_BestModel"] = @ + 1]
            /\ pc' = "scored"
            /\ UNCHANGED err
    /\ UNCHANGED <<prepVars, dados_treino, dados_teste, loop_i, regressor, algoritmo_regressao,
                   bestModel, modelo, resultado_teste_rmse, resultado_teste_r2,
                   resultado_modelo, df_resultados_treinamento, novos_dados,
                   novos_dados_final, writes>>

NextScoring == PrepStep \/ SelectionCompletes \/ ScoreBuild \/ ScoreScale \/ ScorePredict

\* preparation as line 197 calls it, then final scoring
SpecScoring == Init /\ [][NextScoring]_vars

----------------------------------------------------------------------------
(* Properties of func_modulo_prep_dados, checked under SpecPrep *)

\* the function is past its vectorization
Vectorized == pc \in {"prep_scale", "prep_returned"}

\* position of an input column in the feature vector
FeatureIndex(c) == CHOOSE k \in DOMAIN ListaAtributos : ListaAtributos[k] = c

\* the values of input column c in the assembled (unscaled) feature vectors
FeatureColumn(c) ==
    [i \in 1..NumRows(dados_vetorizados) |-> dados_vetorizados.data["features"][i][FeatureIndex(c)]]

\* C1: with outlier handling enabled, every value of a numeric column that reaches
\* the unscaled feature vector is log(clip(x, p1, p99) + 1) when the column's
\* skewness is > 1 and exp(clip(x, p1, p99)) when it is < -1, p1 and p99 being the
\* bounds d[col] approxQuantile returned.
C1_SkewedColumnsTransformed ==
    (Vectorized /\ tratar_outliers) =>
        \A c \in Range(variaveis_numericas) :
            /\ SkewClass(df.data[c]) = "gt1" => FeatureColumn(c) = LogTreated(df.data[c], d[c])
            /\ SkewClass(df.data[c]) = "lt-1" => FeatureColumn(c) = ExpTreated(df.data[c], d[c])

\* C8: a numeric column whose skewness lies in [-1, 1], and every numeric column
\* when outlier handling is disabled, has its values unchanged in the table that is
\* assembled and in the feature vectors assembled from it.
C8_UnskewedColumnsUnchanged ==
    \A c \in Range(variaveis_numericas) :
        (SkewClass(df.data[c]) = "mid" \/ ~tratar_outliers) =>
            /\ pc \in {"prep_vectorize", "prep_scale", "prep_returned"} => df_indexed.data[c] = df.data[c]
            /\ Vectorized => FeatureColumn(c) = df.data[c]

\* a run with outlier handling on reached the return with an unskewed column next
\* to a skewed one
C8_Witness ==
    /\ pc = "prep_returned"
    /\ tratar_outliers
    /\ \E c \in Range(variaveis_numericas) : SkewClass(df.data[c]) = "mid"
    /\ \E c \in Range(variaveis_numericas) : SkewClass(df.data[c]) = "gt1"

\* C9: whatever the two flags, the returned table has exactly the two columns label
\* and features, and features holds the scaled vectors when standardization is on
\* and the assembled vectors otherwise.
C9_ReturnsLabelAndFeatures ==
    pc = "prep_returned" =>
        /\ Len(dados_finais.cols) = Cardinality(Range(dados_finais.cols))
        /\ Range(dados_finais.cols) = {"label", "features"}
        /\ DOMAIN dados_finais.data = {"label", "features"}
        /\ dados_finais.data["label"] = novo_df.data["label"]
        /\ dados_finais.data["features"] =
              IF padronizar_dados
              THEN [i \in 1..NRows |-> Rescale(scalerModel, dados_vetorizados.data["features"][i])]
              ELSE dados_vetorizados.data["features"]

\* the function returned with standardization on and outlier handling off
C9_Witness == pc = "prep_returned" /\ padronizar_dados /\ ~tratar_outliers

\* C10: once the indexing block is over, every name of the final attribute list
\* (numeric columns plus the `_num` columns of the categorical ones) is a column of
\* the table handed to the vector assembler.
C10_AttributesExist ==
    pc \notin {"prep_start", "prep_classify", "prep_index"} =>
        \A k \in DOMAIN ListaAtributos : HasCol(df_indexed, ListaAtributos[k])

----------------------------------------------------------------------------
(* Properties of func_modulo_ml, checked under SpecML *)

\* the first five characters of a string, the whole of a shorter one
FirstFive(str) == [i \in 1..(IF Len(str) < 5 THEN Len(str) ELSE 5) |-> str[i]]

\* C4: whichever of the five branches ran, the table returned for the summary is
\* one row of the three fields (algorithm name, RMSE cut to 5 characters, R2 cut to
\* 5 characters), the metrics being those of the stored cross-validation winner on
\* the test split; the linear-regression branch included.
C4_ReturnsThreeFieldRow ==
    pc = "ml_returned" =>
        /\ resultado_modelo.cols = <<"Regressor", "Resultado_RMSE", "Resultado_R2">>
        /\ resultado_modelo.data["Regressor"] = <<algoritmo_regressao>>
        /\ resultado_modelo.data["Resultado_RMSE"] = <<FirstFive(resultado_teste_rmse)>>
        /\ resultado_modelo.data["Resultado_R2"] = <<FirstFive(resultado_teste_r2)>>
        /\ modelo = bestModel[SlotOf(algoritmo_regressao)]
        /\ modelo.cv

----------------------------------------------------------------------------
(* Properties of the run of the script, checked under Spec *)

\* the run is over: an exception ended it, or line 543 has produced the prediction
Halted == pc \in {"aborted", "scored"}

\* the summary has been filtered (line 494), or the run ended before that
SummaryFinal == pc \in {"aborted", "score_build", "score_scale", "score_predict", "scored"}

\* C3: the summary table the script ends with has exactly one row per regressor
\* of the loop, five in all, and no placeholder row.
C3_OneRowPerRegressor ==
    SummaryFinal =>
        /\ NumRows(df_resultados_treinamento) = Len(Regressores)
        /\ \A i \in DOMAIN Regressores :
              Cardinality({j \in 1..NumRows(df_resultados_treinamento) :
                              df_resultados_treinamento.data["Regressor"][j] = Regressores[i]}) = 1
        /\ \A j \in 1..NumRows(df_resultados_treinamento) :
              df_resultados_treinamento.data["Regressor"][j] # "N/A"

\* C5: a run ends only at final scoring, with the stored GBT winner's prediction
\* for the one new record: no run stops earlier.
C5_RunEndsWithPrediction ==
    Halted =>
        /\ pc = "scored"
        /\ err = ""
        /\ NumRows(previsoes_novos_dados) = 1
        /\ HasCol(previsoes_novos_dados, "prediction")
        /\ previsoes_novos_dados.data["prediction"][1].by = bestModel["GBT_BestModel"]

\* the regressor family a best-model global belongs to
FamilyOf(n) == CHOOSE r \in Range(Regressores) : SlotOf(r) = n

\* C6: scalerModel and the five best-model globals are each written exactly once
\* in a run, a best-model global only with the cross-validation winner of an
\* estimator of its own family, and none is read before it is written.
C6_GlobalsWrittenOnce ==
    /\ \A n \in GlobalNames : writes[n] <= 1
    /\ Halted => \A n \in GlobalNames : writes[n] = 1
    /\ \A n \in BestModelNames :
          writes[n] > 0 => bestModel[n].family = FamilyOf(n) /\ bestModel[n].cv
    /\ \A n \in GlobalNames : reads[n] > 0 => writes[n] > 0

----------------------------------------------------------------------------
(* Properties of final scoring, checked under SpecScoring *)

\* the new record has been scaled
Scaled == pc \in {"score_predict", "scored"}

\* what was done to a scaled feature value: the transform its unscaled value
\* carries, and the bounds it was rescaled with
PipelineOf(cell) == <<cell[2][1], cell[3], cell[4]>>

\* C2: each input column of the new record goes through the transform, with the
\* fitted parameters, that the column went through in the table
\* func_modulo_prep_dados returned.
C2_SamePipelineForNewRecord ==
    Scaled =>
        \A k \in DOMAIN InputNames : \A i \in 1..NumRows(dados_finais) :
            PipelineOf(novos_dados_final.data["features"][1][k])
                = PipelineOf(dados_finais.data["features"][i][k])

----------------------------------------------------------------------------
(* The output column, checked under SpecPrep *)

\* the types the claim counts as numeric
NumericTypes == {"IntegerType", "LongType", "FloatType", "DoubleType"}

\* C11: the output column is renamed to label, and it is cast to float exactly when
\* it is not numeric: a label of type integer, long, float or double keeps its type
\* and its values, a label of any other type becomes a float column.
C11_CastOnlyNonNumericLabel ==
    pc # "prep_start" =>
        /\ HasCol(novo_df, "label")
        /\ ~HasCol(novo_df, VariavelSaida(df))
        /\ IF df.types[VariavelSaida(df)] \in NumericTypes
           THEN /\ novo_df.types["label"] = df.types[VariavelSaida(df)]
                /\ novo_df.data["label"] = df.data[VariavelSaida(df)]
           ELSE /\ novo_df.types["label"] = "FloatType"
                /\ novo_df.data["label"] =
                      [i \in 1..NRows |-> <<"float", df.data[VariavelSaida(df)][i][2]>>]

====
